---------------------------- MODULE Spec2Model ----------------------------
(***************************************************************************)
(* Model of spinegeneric/cli/generate_figure.py: the per-site aggregation  *)
(* of metric records (aggregate_per_site, remove_subject), the exclusion   *)
(* post-pass of main, compute_statistics, and the T1w/T2w regression       *)
(* (generate_figure_t1_t2, compute_regression), driven by main's loop over *)
(* the csv files.                                                          *)
(*                                                                         *)
(* Numbers are exact: a float is modelled by the real number it stands     *)
(* for (rounding is not modelled).  A real is either nan, inf or a finite  *)
(* sum of terms c * sqrt(r), c a rational and r a squarefree natural,      *)
(* which is closed under every operation the code applies (mean, the       *)
(* population standard deviation of rationals, division by a rational).    *)
(***************************************************************************)
EXTENDS Integers, Sequences, FiniteSets, TLC

(***************************************************************************)
(* Bounds of the model.                                                    *)
(***************************************************************************)
\* longest csv file (rows of one metric) of the single-file runs
MaxRecords == 4
\* longest exclusion list of one metric
MaxTokens == 2

(***************************************************************************)
(* Sequence helpers.                                                       *)
(***************************************************************************)
Range(s) == {s[j] : j \in DOMAIN s}

RECURSIVE SumSeq(_)
SumSeq(s) == IF s = <<>> THEN 0 ELSE s[1] + SumSeq(Tail(s))

\* the sequences over S without repetition, of length at most n
RECURSIVE InjSeqs(_, _)
InjSeqs(S, n) ==
    IF n = 0 THEN {<<>>}
    ELSE LET shorter == InjSeqs(S, n - 1)
         IN  shorter \cup UNION {{Append(s, x) : x \in S \ Range(s)} :
                                     s \in {t \in shorter : Len(t) = n - 1}}

\* all sequences over S of length at most n
RECURSIVE SeqsUpTo(_, _)
SeqsUpTo(S, n) ==
    IF n = 0 THEN {<<>>}
    ELSE LET shorter == SeqsUpTo(S, n - 1)
         IN  shorter \cup {Append(s, x) : s \in {t \in shorter : Len(t) = n - 1},
                                          x \in S}

(***************************************************************************)
(* Exact arithmetic.  A rational is <<n, d>> with d > 0 and gcd(n, d) = 1. *)
(***************************************************************************)
Abs(n) == IF n < 0 THEN -n ELSE n

RECURSIVE Gcd(_, _)
Gcd(a, b) == IF b = 0 THEN a ELSE Gcd(b, a % b)

RNorm(n, d) ==
    LET s == IF d < 0 THEN -1 ELSE 1
        g == Gcd(Abs(n), Abs(d))
    IN  <<(s * n) \div g, (s * d) \div g>>

RInt(n)    == <<n, 1>>
RAdd(p, q) == RNorm(p[1] * q[2] + q[1] * p[2], p[2] * q[2])
RSub(p, q) == RNorm(p[1] * q[2] - q[1] * p[2], p[2] * q[2])
RMul(p, q) == RNorm(p[1] * q[1], p[2] * q[2])
\* q # 0
RDiv(p, q) == RNorm(p[1] * q[2], p[2] * q[1])

\* floor of the square root of a natural
RECURSIVE ISqrtFrom(_, _)
ISqrtFrom(n, k) == IF (k + 1) * (k + 1) > n THEN k ELSE ISqrtFrom(n, k + 1)
ISqrt(n) == ISqrtFrom(n, 0)

\* the largest s with s * s dividing n (n > 0)
RECURSIVE SquarePartFrom(_, _)
SquarePartFrom(n, s) ==
    IF s <= 1 THEN 1
    ELSE IF n % (s * s) = 0 THEN s ELSE SquarePartFrom(n, s - 1)
SquarePart(n) == SquarePartFrom(n, ISqrt(n))

(***************************************************************************)
(* Reals: [k |-> "num", t |-> terms], or NaN, or Inf.  A term is           *)
(* [c |-> rational # 0, r |-> squarefree natural]; no two terms of a real  *)
(* share r; the empty set of terms is 0.                                   *)
(***************************************************************************)
NaN == [k |-> "nan", t |-> {}]
Inf == [k |-> "inf", t |-> {}]
Num(terms) == [k |-> "num", t |-> terms]
Zero == Num({})

FromRat(q) == IF q[1] = 0 THEN Zero ELSE Num({[c |-> q, r |-> 1]})
FromInt(n) == FromRat(RInt(n))
Frac(n, d) == FromRat(RNorm(n, d))

IsNum(x) == x.k = "num"
IsNaN(x) == x.k = "nan"
IsRational(x) == IsNum(x) /\ \A m \in x.t : m.r = 1
\* the rational a rational real stands for
RatOf(x) == IF x.t = {} THEN RInt(0) ELSE (CHOOSE m \in x.t : TRUE).c

Coef(x, r) == IF \E m \in x.t : m.r = r
              THEN (CHOOSE m \in x.t : m.r = r).c ELSE RInt(0)

RealAdd(x, y) ==
    IF IsNaN(x) \/ IsNaN(y) THEN NaN
    ELSE IF ~IsNum(x) \/ ~IsNum(y) THEN Inf
    ELSE LET rs == {m.r : m \in x.t \cup y.t}
         IN  Num({[c |-> RAdd(Coef(x, r), Coef(y, r)), r |-> r] :
                     r \in {r2 \in rs : RAdd(Coef(x, r2), Coef(y, r2))[1] # 0}})

\* x / y for a rational y, as IEEE division does it for x >= 0:
\* 0/0 and nan give nan, a positive x over 0 gives inf
RealDiv(x, y) ==
    IF IsNaN(x) \/ IsNaN(y) THEN NaN
    ELSE IF ~IsNum(y) THEN (IF IsNum(x) THEN Zero ELSE NaN)
    ELSE IF ~IsNum(x) THEN Inf
    ELSE IF y.t = {} THEN (IF x.t = {} THEN NaN ELSE Inf)
    ELSE Num({[c |-> RDiv(m.c, RatOf(y)), r |-> m.r] : m \in x.t})

\* the square root of a rational q >= 0
SqrtRat(q) ==
    IF q[1] = 0 THEN Zero
    ELSE LET m == q[1] * q[2]
             s == SquarePart(m)
         IN  Num({[c |-> RNorm(s, q[2]), r |-> m \div (s * s)]})

RECURSIVE RealSum(_)
RealSum(s) == IF s = <<>> THEN Zero ELSE RealAdd(s[1], RealSum(Tail(s)))


(***************************************************************************)
(* Program constants (module-level tables of generate_figure.py).          *)
(***************************************************************************)
\* the vendors compute_statistics loops over, in the order of its list
vendors == <<"GE", "Philips", "Siemens">>

vendor_to_color ==
    ("GE" :> "black") @@ ("Philips" :> "dodgerblue") @@ ("Siemens" :> "limegreen")

\* the csv files of the model (three of the nine of the table)
file_to_metric ==
    ("csa-SC_T1w.csv" :> "csa_t1") @@ ("csa-SC_T2w.csv" :> "csa_t2") @@
    ("MTR.csv" :> "mtr")

metric_to_field ==
    ("csa_t1" :> "MEAN(area)") @@ ("csa_t2" :> "MEAN(area)") @@ ("mtr" :> "WA()")

(***************************************************************************)
(* Strings.  A TLA+ string is atomic, so the two string operations of the  *)
(* code are given on the strings of the model: str.startswith('sub-') by   *)
(* the set of the strings that start with it, and the order sort_values    *)
(* uses by the list of the model's strings in Python's string order.       *)
(***************************************************************************)
Subjects == {"sub-amu01", "sub-amu02", "sub-brno01", "sub-ucl01"}
Sites == {"amu", "brno", "ucl"}
AllVendors == {"GE", "Philips", "Siemens", "Toshiba"}

startswith_sub(s) == s \in Subjects

StrOrder == <<"750", "Achieva", "GE", "Philips", "Prisma", "Siemens", "Toshiba",
              "Vantage", "amu", "brno", "ucl">>
StrRank(s) == CHOOSE j \in DOMAIN StrOrder : StrOrder[j] = s

\* a csv field is a sequence of characters; float() reads a decimal integer
NoneText == <<"N", "o", "n", "e">>
DigitVal == ("0" :> 0) @@ ("1" :> 1) @@ ("2" :> 2) @@ ("3" :> 3) @@ ("4" :> 4) @@
            ("5" :> 5) @@ ("6" :> 6) @@ ("7" :> 7) @@ ("8" :> 8) @@ ("9" :> 9)
RECURSIVE float(_)
float(txt) ==
    IF txt = <<>> THEN 0
    ELSE 10 * float(SubSeq(txt, 1, Len(txt) - 1)) + DigitVal[txt[Len(txt)]]

(***************************************************************************)
(* Exceptions.  An uncaught exception ends the run; `mentions' holds the   *)
(* subject, site and vendor names that appear in its message.              *)
(***************************************************************************)
NoError == [type |-> "none", line |-> 0, mentions |-> {}]
Raise(type, line, mentions) == [type |-> type, line |-> line, mentions |-> mentions]

(***************************************************************************)
(* fetch_subject: the directory two levels above the file.  A filename is  *)
(* the sequence of its path components.                                    *)
(***************************************************************************)
fetch_subject(filename) ==
    LET path == SubSeq(filename, 1, Len(filename) - 1)
    IN  path[Len(path) - 1]

(***************************************************************************)
(* remove_subject                                                          *)
(***************************************************************************)
(***************************************************************************)
(* main, lines 693-709: the exclusion file.  `yml' is the Python type of   *)
(* what yaml.safe_load leaves in dict_exclude_subj, by the shape of the    *)
(* document.  After a YAMLError, which main prints and passes over,        *)
(* dict_exclude_subj is not assigned.  Without the option -exclude it is   *)
(* dict().                                                                 *)
(***************************************************************************)
YamlDocuments ==
    {"mapping of sequences", "syntax error", "empty", "sequence", "scalar",
     "mapping of scalars", "mapping of nulls"}
safe_load(document) ==
    CASE document = "mapping of sequences" -> "dict"
      [] document = "syntax error"         -> "unbound"
      [] document = "empty"                -> "NoneType"
      [] document = "sequence"             -> "list"
      [] document = "scalar"               -> "str"
      [] document = "mapping of scalars"   -> "dict of str"
      [] document = "mapping of nulls"     -> "dict of NoneType"
\* the types without the method keys()
NoKeys == {"NoneType", "list", "str"}

\* remove_subject, lines 651-652: dict_exclude_subj.keys() and
\* `subject in dict_exclude_subj[metric]' on what is not a dict of lists.
\* (`in' a str is the substring test: a str that is a subject id holds that
\* subject id and none of the other subject ids.)
remove_subject_raises(metric, excl, yml) ==
    IF yml \in NoKeys THEN Raise("AttributeError", 651, {})
    ELSE IF yml = "dict of NoneType" /\ metric \in DOMAIN excl
    THEN Raise("TypeError", 652, {})
    ELSE NoError

\* the lists of all the metrics are searched
remove_subject_any_metric(subject, metric, excl) ==
    \E m \in DOMAIN excl : subject \in Range(excl[m])

remove_subject_never(subject, metric, excl) == FALSE

\* the check of the first token of the list only
remove_subject_first_token(subject, metric, excl) ==
    /\ metric \in DOMAIN excl
    /\ excl[metric] # <<>>
    /\ subject = excl[metric][1]

remove_subject(subject, metric, excl) ==
    IF metric \in DOMAIN excl
    THEN (IF subject \in Range(excl[metric]) THEN TRUE ELSE FALSE)
    ELSE FALSE

(***************************************************************************)
(* aggregate_per_site, one iteration of its loop.  The state of the loop   *)
(* is [results_agg, subjects_removed, raised]; results_agg is the dict in  *)
(* insertion order, each entry [site, vendor, model, val, src], where src  *)
(* (not in the code) records the subject each entry of val came from.      *)
(***************************************************************************)
AggInit == [results_agg |-> <<>>, subjects_removed |-> <<>>, raised |-> NoError]

HasSite(agg, site) == \E j \in DOMAIN agg : agg[j].site = site
SiteIdx(agg, site) == CHOOSE j \in DOMAIN agg : agg[j].site = site

\* participants[participants['participant_id'] == subject].index
RowIndex(parts, subject) == {j \in DOMAIN parts : parts[j].participant_id = subject}
First(S) == CHOOSE j \in S : \A j2 \in S : j <= j2

aggregate_body_keep_none(st, row, metric, excl, parts) ==
    LET subject == fetch_subject(row["Filename"])
        rowIndex == RowIndex(parts, subject)
        p == parts[First(rowIndex)]
        val == row[metric_to_field[metric]]
        agg1 == IF HasSite(st.results_agg, p.institution_id) THEN st.results_agg
                ELSE Append(st.results_agg,
                            [site |-> p.institution_id, vendor |-> p.manufacturer,
                             model |-> p.manufacturers_model_name,
                             val |-> <<>>, src |-> <<>>])
        j == SiteIdx(agg1, p.institution_id)
    IN  IF remove_subject(subject, metric, excl)
        THEN [st EXCEPT !.subjects_removed = Append(@, subject)]
        ELSE IF rowIndex = {}
        THEN [st EXCEPT !.raised = Raise("IndexError", 246, {})]
        ELSE [st EXCEPT !.results_agg =
                 [agg1 EXCEPT ![j].val = Append(@, IF val = NoneText THEN 0 ELSE float(val)),
                              ![j].src = Append(@, subject)]]

\* the entry of a site made only when a value is accumulated
aggregate_body_site_on_value(st, row, metric, excl, parts) ==
    LET subject == fetch_subject(row["Filename"])
        rowIndex == RowIndex(parts, subject)
        p == parts[First(rowIndex)]
        val == row[metric_to_field[metric]]
        agg1 == IF HasSite(st.results_agg, p.institution_id) THEN st.results_agg
                ELSE Append(st.results_agg,
                            [site |-> p.institution_id, vendor |-> p.manufacturer,
                             model |-> p.manufacturers_model_name,
                             val |-> <<>>, src |-> <<>>])
        j == SiteIdx(agg1, p.institution_id)
    IN  IF remove_subject(subject, metric, excl)
        THEN [st EXCEPT !.subjects_removed = Append(@, subject)]
        ELSE IF rowIndex = {}
        THEN [st EXCEPT !.raised = Raise("IndexError", 246, {})]
        ELSE IF val = NoneText
        THEN st
        ELSE [st EXCEPT !.results_agg =
                 [agg1 EXCEPT ![j].val = Append(@, float(val)),
                              ![j].src = Append(@, subject)]]

\* the row of participants.tsv looked up before the check of the exclusion
aggregate_body_lookup_first(st, row, metric, excl, parts) ==
    LET subject == fetch_subject(row["Filename"])
        rowIndex == RowIndex(parts, subject)
        p == parts[First(rowIndex)]
        val == row[metric_to_field[metric]]
        agg1 == IF HasSite(st.results_agg, p.institution_id) THEN st.results_agg
                ELSE Append(st.results_agg,
                            [site |-> p.institution_id, vendor |-> p.manufacturer,
                             model |-> p.manufacturers_model_name,
                             val |-> <<>>, src |-> <<>>])
        j == SiteIdx(agg1, p.institution_id)
    IN  IF rowIndex = {}
        THEN [st EXCEPT !.raised = Raise("IndexError", 246, {})]
        ELSE IF remove_subject(subject, metric, excl)
        THEN [st EXCEPT !.subjects_removed = Append(@, subject)]
        ELSE IF val = NoneText
        THEN [st EXCEPT !.results_agg = agg1]
        ELSE [st EXCEPT !.results_agg =
                 [agg1 EXCEPT ![j].val = Append(@, float(val)),
                              ![j].src = Append(@, subject)]]

\* a record without a value counted as removed
aggregate_body_none_removed(st, row, metric, excl, parts) ==
    LET subject == fetch_subject(row["Filename"])
        rowIndex == RowIndex(parts, subject)
        p == parts[First(rowIndex)]
        val == row[metric_to_field[metric]]
        agg1 == IF HasSite(st.results_agg, p.institution_id) THEN st.results_agg
                ELSE Append(st.results_agg,
                            [site |-> p.institution_id, vendor |-> p.manufacturer,
                             model |-> p.manufacturers_model_name,
                             val |-> <<>>, src |-> <<>>])
        j == SiteIdx(agg1, p.institution_id)
    IN  IF remove_subject(subject, metric, excl)
        THEN [st EXCEPT !.subjects_removed = Append(@, subject)]
        ELSE IF rowIndex = {}
        THEN [st EXCEPT !.raised = Raise("IndexError", 246, {})]
        ELSE IF val = NoneText
        THEN [st EXCEPT !.results_agg = agg1, !.subjects_removed = Append(@, subject)]
        ELSE [st EXCEPT !.results_agg =
                 [agg1 EXCEPT ![j].val = Append(@, float(val)),
                              ![j].src = Append(@, subject)]]

aggregate_body(st, row, metric, excl, parts) ==
    LET filename == row["Filename"]
        subject == fetch_subject(filename)
        rowIndex == RowIndex(parts, subject)
        p == parts[First(rowIndex)]
        site == p.institution_id
        val == row[metric_to_field[metric]]
        agg1 == IF HasSite(st.results_agg, site) THEN st.results_agg
                ELSE Append(st.results_agg,
                            [site |-> site, vendor |-> p.manufacturer,
                             model |-> p.manufacturers_model_name,
                             val |-> <<>>, src |-> <<>>])
        j == SiteIdx(agg1, site)
    IN  IF ~remove_subject(subject, metric, excl)
        THEN IF rowIndex = {}
             \* .array[0] of an empty selection: "index 0 is out of bounds
             \* for axis 0 with size 0"
             THEN [st EXCEPT !.raised = Raise("IndexError", 246, {})]
             ELSE IF ~(val = NoneText)
             THEN [st EXCEPT !.results_agg =
                      [agg1 EXCEPT ![j].val = Append(@, float(val)),
                                   ![j].src = Append(@, subject)]]
             ELSE [st EXCEPT !.results_agg = agg1]
        ELSE [st EXCEPT !.subjects_removed = Append(@, subject)]

\* the whole loop over rows, stopping at the first exception
RECURSIVE aggregate_loop(_, _, _, _, _)
aggregate_loop(st, rows, metric, excl, parts) ==
    IF rows = <<>> \/ st.raised # NoError THEN st
    ELSE aggregate_loop(aggregate_body(st, rows[1], metric, excl, parts),
                        Tail(rows), metric, excl, parts)


(***************************************************************************)
(* numpy and pandas reductions.                                            *)
(***************************************************************************)
RECURSIVE SumSq(_)
SumSq(s) == IF s = <<>> THEN 0 ELSE s[1] * s[1] + SumSq(Tail(s))

\* np.mean of a list of floats (nan for the empty list)
NpMean(val) == IF val = <<>> THEN NaN ELSE Frac(SumSeq(val), Len(val))

\* the sample standard deviation (ddof = 1)
NpStdSample(val) ==
    IF Len(val) < 2 THEN NaN
    ELSE LET n == Len(val)
         IN  SqrtRat(RNorm(n * SumSq(val) - SumSeq(val) * SumSeq(val), n * (n - 1)))

\* np.std of a list of floats: the population standard deviation
NpStd(val) ==
    IF val = <<>> THEN NaN
    ELSE LET n == Len(val)
         IN  SqrtRat(RNorm(n * SumSq(val) - SumSeq(val) * SumSeq(val), n * n))

\* np.mean of an array of reals: nan propagates, nan for the empty array
NpMeanReal(xs) ==
    IF xs = <<>> THEN NaN ELSE RealDiv(RealSum(xs), FromInt(Len(xs)))

RECURSIVE RatSum(_)
RatSum(qs) == IF qs = <<>> THEN RInt(0) ELSE RAdd(qs[1], RatSum(Tail(qs)))

\* np.mean / np.std of a pandas Series of rational-or-nan reals: numpy hands
\* both to Series.mean / Series.std(ddof=0), which skip nan (skipna=True)
DropNaN(xs) == SelectSeq(xs, IsNum)
PdMean(xs) ==
    LET ys == DropNaN(xs)
    IN  IF ys = <<>> THEN NaN
        ELSE FromRat(RDiv(RatSum([j \in DOMAIN ys |-> RatOf(ys[j])]), RInt(Len(ys))))
\* Series.std with its own default, ddof = 1
PdStdSample(xs) ==
    LET ys == DropNaN(xs)
        n  == Len(ys)
        qs == [j \in DOMAIN ys |-> RatOf(ys[j])]
        m  == RDiv(RatSum(qs), RInt(n))
        sq == [j \in DOMAIN ys |-> RMul(RSub(qs[j], m), RSub(qs[j], m))]
    IN  IF n < 2 THEN NaN ELSE SqrtRat(RDiv(RatSum(sq), RInt(n - 1)))

PdStd(xs) ==
    LET ys == DropNaN(xs)
        n  == Len(ys)
        qs == [j \in DOMAIN ys |-> RatOf(ys[j])]
        m  == RDiv(RatSum(qs), RInt(n))
        sq == [j \in DOMAIN ys |-> RMul(RSub(qs[j], m), RSub(qs[j], m))]
    IN  IF ys = <<>> THEN NaN ELSE SqrtRat(RDiv(RatSum(sq), RInt(n)))

(***************************************************************************)
(* compute_statistics.  df is the sequence of the DataFrame's rows.  A     *)
(* pandas Series selected from df keeps the row labels: it is modelled as  *)
(* the sequence of the selected rows' [site, x].  f_oneway and             *)
(* pairwise_tukeyhsd are library calls: the model records their arguments. *)
(* `lib' fixes what the installed libraries do where their versions        *)
(* differ: f_oneway on fewer than two groups (scipy >= 1.5 raises          *)
(* TypeError, older ones return nan), and pairwise_tukeyhsd on data with   *)
(* nan or with no residual degree of freedom.                              *)
(***************************************************************************)
LibBehaviours == [oneway_needs_two : BOOLEAN, tukey_degenerate_raises : BOOLEAN]

SiteStats(row, mean, std) ==
    [site |-> row.site, vendor |-> row.vendor, model |-> row.model,
     val |-> row.val, src |-> row.src, exclude |-> row.exclude,
     mean |-> mean, std |-> std, cov |-> RealDiv(std, mean)]

WithSiteStats(df) ==
    [j \in DOMAIN df |-> SiteStats(df[j], NpMean(df[j].val), NpStd(df[j].val))]

\* df[col][mask] as a Series
Series(rows, col) == [j \in DOMAIN rows |-> [site |-> rows[j].site, x |-> rows[j][col]]]
Values(series) == [j \in DOMAIN series |-> series[j].x]

VendorRowsAll(df, vendor) == SelectSeq(df, LAMBDA r : r.vendor = vendor)
\* the selection without the mask on the exclude column
VendorRowsWithExcluded(df, vendor) == SelectSeq(df, LAMBDA r : r.vendor = vendor)
\* df[(df['vendor'] == vendor) & ~df['exclude']]
VendorRows(df, vendor) == SelectSeq(df, LAMBDA r : r.vendor = vendor /\ ~r.exclude)

VendorStatOf(rows, mean, std) ==
    [mean |-> mean, std |-> std,
     cov_inter |-> RealDiv(std, mean),
     cov_intra |-> NpMeanReal([j \in DOMAIN rows |-> RealDiv(rows[j].std, rows[j].mean)])]

VendorStat(df, vendor) ==
    CHOOSE r \in UNION {{VendorStatOf(rows, PdMean(val_per_vendor), PdStd(val_per_vendor)) :
                            val_per_vendor \in {Values(Series(rows, "mean"))}} :
                            rows \in {VendorRows(df, vendor)}} : TRUE

\* the groups of f_oneway(*[df['mean'][df['vendor'] == v] for v in vendors])
AnovaVendorGroups(df) ==
    [j \in DOMAIN vendors |-> Series(VendorRowsAll(df, vendors[j]), "mean")]

\* the arguments of pairwise_tukeyhsd(df['mean'], df['vendor'])
TukeyArgs(df) ==
    [data |-> Series(df, "mean"), groups |-> Series(df, "vendor")]

TukeyTooFewGroups(df) == Cardinality({df[j].vendor : j \in DOMAIN df}) < 2
\* a nan site mean (an empty val), or as many groups as observations
TukeyDegenerate(df) ==
    \/ \E j \in DOMAIN df : df[j].val = <<>>
    \/ Len(df) - Cardinality({df[j].vendor : j \in DOMAIN df}) < 1

NoStats == [mean |-> <<>>, std |-> <<>>, cov_inter |-> <<>>, cov_intra |-> <<>>,
            anova_site |-> <<>>, anova_vendor |-> <<>>]
NoTukey == [data |-> <<>>, groups |-> <<>>]

\* the exception compute_statistics ends with, if any
compute_statistics_raises(df0, lib) ==
    LET ge == VendorRowsAll(df0, "GE")
    IN  IF df0 = <<>>
        \* the empty DataFrame has no column 'vendor'
        THEN Raise("KeyError", 329, {})
        ELSE IF Len(ge) = 0
        \* f_oneway() without a group
        THEN Raise("TypeError", 343, {})
        ELSE IF Len(ge) = 1 /\ lib.oneway_needs_two
        THEN Raise("TypeError", 343, {})
        ELSE IF TukeyTooFewGroups(df0)
        \* "2 or more groups required for multiple comparisons"
        THEN Raise("ValueError", 348, {})
        ELSE IF TukeyDegenerate(df0) /\ lib.tukey_degenerate_raises
        THEN Raise("ValueError", 348, {})
        ELSE NoError

\* what compute_statistics returns (and prints: tukey_test) when it returns:
\* d is df with its columns mean, std, cov; vs the statistics of each vendor
StatsOf(d, vs) ==
    LET ge == VendorRowsAll(d, "GE")
        values_per_site == [j \in DOMAIN ge |-> ge[j].val]
    IN  [df |-> d,
         stats |-> [mean |-> [v \in Range(vendors) |-> vs[v].mean],
                    std |-> [v \in Range(vendors) |-> vs[v].std],
                    cov_inter |-> [v \in Range(vendors) |-> vs[v].cov_inter],
                    cov_intra |-> [v \in Range(vendors) |-> vs[v].cov_intra],
                    anova_site |-> values_per_site,
                    anova_vendor |-> AnovaVendorGroups(d)],
         tukey_test |-> TukeyArgs(d)]

\* (the singleton sets bind d and vs to values computed once)
compute_statistics(df0) ==
    CHOOSE r \in UNION {{StatsOf(d, vs) : vs \in {[v \in Range(vendors) |-> VendorStat(d, v)]}} :
                           d \in {WithSiteStats(df0)}} : TRUE

(***************************************************************************)
(* DataFrame helpers of main and generate_figure_t1_t2.                    *)
(***************************************************************************)
\* rows sorted by a key that no two rows share (Less is a strict order)
SiteLess(a, b) == StrRank(a.site) < StrRank(b.site)
VendorModelSiteLess(a, b) ==
    \/ StrRank(a.vendor) < StrRank(b.vendor)
    \/ a.vendor = b.vendor /\ StrRank(a.model) < StrRank(b.model)
    \/ a.vendor = b.vendor /\ a.model = b.model /\ StrRank(a.site) < StrRank(b.site)
\* the order of sort_values(by): by is <<"site">> or <<"vendor", "model", "site">>
Less(a, b, by) == IF by = <<"site">> THEN SiteLess(a, b) ELSE VendorModelSiteLess(a, b)

\* the rows in the order of `by' (the sites differ from row to row)
SortedBy(rows, by) ==
    [n \in DOMAIN rows |->
        rows[CHOOSE j \in DOMAIN rows :
                Cardinality({j2 \in DOMAIN rows : Less(rows[j2], rows[j], by)}) = n - 1]]

\* df.sort_values('site').values
sort_values_site(df) == SortedBy(df, <<"site">>)
\* df.sort_values(by=['vendor', 'model', 'site'])
sort_values_vendor(df) == SortedBy(df, <<"vendor", "model", "site">>)

\* list(OrderedDict.fromkeys(seq)): the first occurrences, in order
RECURSIVE FromKeys(_)
FromKeys(seq) ==
    IF seq = <<>> THEN <<>>
    ELSE LET front == FromKeys(SubSeq(seq, 1, Len(seq) - 1))
             last == seq[Len(seq)]
         IN  IF last \in Range(front) THEN front ELSE Append(front, last)

vendor_sorted(df) == LET t == sort_values_vendor(df) IN [j \in DOMAIN t |-> t[j].vendor]

RECURSIVE Concat(_)
Concat(ss) == IF ss = <<>> THEN <<>> ELSE ss[1] \o Concat(Tail(ss))

(***************************************************************************)
(* The exclusion post-pass of main (lines 745-753): the rows of            *)
(* DataFrame.from_dict(results_dict, orient='index') with the 'exclude'    *)
(* column.  df['exclude'][token] = True sets the flag of the row labelled  *)
(* token; for a token that labels no row the assignment enlarges a         *)
(* temporary Series and leaves df as it is.                                *)
(***************************************************************************)
\* lines 750-751 on what is not a dict of lists.  (The loop over a str goes
\* through its characters, none of which starts with 'sub-' or labels a row
\* of df: a str that is a subject id sets no flag, as the list of it.)
post_pass_raises(metric, excl, yml) ==
    IF yml \in NoKeys THEN Raise("AttributeError", 750, {})
    ELSE IF yml = "dict of NoneType" /\ metric \in DOMAIN excl
    THEN Raise("TypeError", 751, {})
    ELSE NoError

ExcludeFlagAnyToken(site, metric, excl) ==
    metric \in DOMAIN excl /\ excl[metric] # <<>>

ExcludeFlag(site, metric, excl) ==
    /\ metric \in DOMAIN excl
    /\ \E j \in DOMAIN excl[metric] :
          LET subject == excl[metric][j]
          IN  ~startswith_sub(subject) /\ subject = site

post_pass(results_dict, metric, excl) ==
    [j \in DOMAIN results_dict |->
        [site |-> results_dict[j].site, vendor |-> results_dict[j].vendor,
         model |-> results_dict[j].model, val |-> results_dict[j].val,
         src |-> results_dict[j].src,
         exclude |-> ExcludeFlag(results_dict[j].site, metric, excl)]]

(***************************************************************************)
(* generate_figure_metric: what of it can end the run.  A vendor without   *)
(* a colour raises KeyError (line 432).  With a nan site mean the y-limits *)
(* of line 462 are nan, which matplotlib refuses in the versions that      *)
(* validate axis limits: `strict_limits' says whether this one does.       *)
(***************************************************************************)
generate_figure_metric(df, strict_limits) ==
    LET vs == vendor_sorted(df)
        bad == {j \in DOMAIN vs : vs[j] \notin DOMAIN vendor_to_color}
    IN  IF bad # {}
        THEN Raise("KeyError", 432, {vs[First(bad)]})
        ELSE IF strict_limits /\ \E j \in DOMAIN df : ~IsNum(df[j].mean)
        THEN Raise("ValueError", 462, {})
        ELSE NoError

(***************************************************************************)
(* generate_figure_t1_t2, lines 520-524: CSA_dict.  Row index of csa_t1    *)
(* selects the row of csa_t2; the vendor is the one of csa_t1's row.       *)
(* CSA_dict[v] = [t1, t2], each a list of arrays [val, src].               *)
(***************************************************************************)
Arr(row) == [val |-> row.val, src |-> row.src]
EmptyLists == [t1 |-> <<>>, t2 |-> <<>>]
Lookup(d, v) == IF v \in DOMAIN d THEN d[v] ELSE EmptyLists

RECURSIVE build_CSA_dict(_, _, _, _)
build_CSA_dict(d, t1, t2, index) ==
    IF index > Len(t1) THEN [CSA_dict |-> d, raised |-> NoError]
    ELSE IF index > Len(t2)
    \* csa_t2[index, 3]: index out of bounds
    THEN [CSA_dict |-> d, raised |-> Raise("IndexError", 524, {})]
    ELSE LET v == t1[index].vendor
             old == Lookup(d, v)
             new == [t1 |-> Append(old.t1, Arr(t1[index])),
                     t2 |-> Append(old.t2, Arr(t2[index]))]
         IN  build_CSA_dict((v :> new) @@ d, t1, t2, index + 1)

\* np.concatenate(CSA_dict[vendor + '_t2']) and ...['_t1']: x and y
XOf(d, v) == Concat([j \in DOMAIN Lookup(d, v).t2 |-> Lookup(d, v).t2[j].val])
YOf(d, v) == Concat([j \in DOMAIN Lookup(d, v).t1 |-> Lookup(d, v).t1[j].val])
XSrc(d, v) == Concat([j \in DOMAIN Lookup(d, v).t2 |-> Lookup(d, v).t2[j].src])
YSrc(d, v) == Concat([j \in DOMAIN Lookup(d, v).t1 |-> Lookup(d, v).t1[j].src])

\* the first loop (lines 529-536): the scatter plot of every vendor
agreement_figure(d, vs) ==
    LET bad == {j \in DOMAIN vs :
                   \/ Lookup(d, vs[j]).t2 = <<>>
                   \/ Len(XOf(d, vs[j])) # Len(YOf(d, vs[j]))}
    IN  IF bad = {} THEN NoError
        \* np.concatenate of an empty list, or scatter(x, y) of two sizes
        ELSE Raise("ValueError", 530, {})

(***************************************************************************)
(* compute_regression: ordinary least squares of y on x.                   *)
(***************************************************************************)
RECURSIVE Dot(_, _)
Dot(x, y) == IF x = <<>> THEN 0 ELSE x[1] * y[1] + Dot(Tail(x), Tail(y))

compute_regression(x, y) ==
    LET n == Len(x)
        sxx == n * SumSq(x) - SumSeq(x) * SumSeq(x)
        sxy == n * Dot(x, y) - SumSeq(x) * SumSeq(y)
        syy == n * SumSq(y) - SumSeq(y) * SumSeq(y)
        \* the minimum-norm solution when x is constant
        slope == IF sxx = 0 THEN RInt(0) ELSE RNorm(sxy, sxx)
        intercept == RDiv(RSub(RInt(SumSeq(y)), RMul(slope, RInt(SumSeq(x)))), RInt(n))
        \* n * n * SSres = n * syy - 2 slope n sxy + slope^2 n sxx
        ssres == RAdd(RSub(RInt(syy), RMul(RInt(2), RMul(slope, RInt(sxy)))),
                      RMul(RMul(slope, slope), RInt(sxx)))
        r2 == IF n < 2 THEN NaN
              ELSE IF syy = 0 THEN (IF ssres[1] = 0 THEN FromInt(1) ELSE Zero)
              ELSE FromRat(RSub(RInt(1), RDiv(ssres, RInt(syy))))
    IN  [intercept |-> FromRat(intercept), slope |-> FromRat(slope), r2_sc |-> r2,
         n |-> n]


(***************************************************************************)
(* The inputs of a run: participants.tsv, the exclusion dict, the csv      *)
(* files found by glob (in the order glob gives them) and their rows.      *)
(***************************************************************************)
SubjectOrder == <<"sub-amu01", "sub-amu02", "sub-brno01", "sub-ucl01">>
SiteOf == ("sub-amu01" :> "amu") @@ ("sub-amu02" :> "amu") @@
          ("sub-brno01" :> "brno") @@ ("sub-ucl01" :> "ucl")
RawOf == ("sub-amu01" :> <<"1", "0">>) @@ ("sub-amu02" :> <<"1", "2">>) @@
         ("sub-brno01" :> <<"2", "0">>) @@ ("sub-ucl01" :> <<"1", "5">>)
ModelOf == ("GE" :> "750") @@ ("Philips" :> "Achieva") @@ ("Siemens" :> "Prisma") @@
           ("Toshiba" :> "Vantage")
\* the subjects whose measurement may be missing ("None")
NoneAble == {"sub-amu02", "sub-ucl01"}
\* the exclusion tokens of the model: two subjects and two sites
Tokens == {"sub-amu01", "sub-brno01", "amu", "brno"}
Files == DOMAIN file_to_metric

DefaultVendors == ("amu" :> "GE") @@ ("brno" :> "GE") @@ ("ucl" :> "Philips")

\* participants.tsv without the rows of `missing', with the vendor of each site
Participants(missing, vendorOf) ==
    LET present == SelectSeq(SubjectOrder, LAMBDA sub : sub \notin missing)
    IN  [j \in DOMAIN present |->
            [participant_id |-> present[j],
             institution_id |-> SiteOf[present[j]],
             manufacturer |-> vendorOf[SiteOf[present[j]]],
             manufacturers_model_name |-> ModelOf[vendorOf[SiteOf[present[j]]]]]]

\* one row of the csv file of a metric
Row(sub, txt, file) ==
    ("Filename" :> <<sub, "anat", file>>) @@ (metric_to_field[file_to_metric[file]] :> txt)

\* the rows a subject can have: its measurement, or "None"
Choice == {<<sub, RawOf[sub]>> : sub \in Subjects} \cup {<<sub, NoneText>> : sub \in NoneAble}

\* the csv files of at most n rows, one row per subject at most, in any order
RowSeqs(file, n) ==
    LET cs == {c \in InjSeqs(Choice, n) :
                  \A a, b \in DOMAIN c : a # b => c[a][1] # c[b][1]}
    IN  {[j \in DOMAIN c |-> Row(c[j][1], c[j][2], file)] : c \in cs}

\* the csv file with a row for every subject of `subs', in the order of
\* SubjectOrder, the subjects of `none' with the value "None"
RowsOf(file, subs, none) ==
    LET present == SelectSeq(SubjectOrder, LAMBDA sub : sub \in subs)
    IN  [j \in DOMAIN present |->
            Row(present[j], IF present[j] \in none THEN NoneText ELSE RawOf[present[j]],
                file)]

EmptyDict == <<>>
TokenSeqs(n) == SeqsUpTo(Tokens, n)

\* a run whose exclusion file, if any, is a mapping of sequences
Input(parts, excl, files, data) ==
    [participants |-> parts, dict_exclude_subj |-> excl, csv_files |-> files,
     csv_data |-> data, yml |-> safe_load("mapping of sequences")]

\* one metric file; every csv file, every exclusion list
InputsExclusion ==
    LET f == "csa-SC_T1w.csv"
    IN  {Input(Participants({}, DefaultVendors), excl, <<f>>, f :> rows) :
            rows \in RowSeqs(f, MaxRecords),
            excl \in {EmptyDict} \cup {"csa_t1" :> l : l \in TokenSeqs(MaxTokens)}
                       \cup {"mtr" :> l : l \in TokenSeqs(1)}}

\* one metric file with a row per subject; every participants.tsv
InputsMetadata ==
    LET f == "csa-SC_T1w.csv"
    IN  {Input(Participants(missing, vendorOf), "csa_t1" :> l, <<f>>,
               f :> RowsOf(f, Subjects, none)) :
            missing \in {{}} \cup {{sub} : sub \in Subjects}
                          \cup {{"sub-amu02", "sub-ucl01"}},
            vendorOf \in [Sites -> AllVendors],
            l \in {<<>>, <<"sub-amu02">>, <<"brno">>},
            none \in {{}, {"sub-ucl01"}}}

\* the vendors for which the single site of GE sorts first
GeLastSite == ("amu" :> "Siemens") @@ ("brno" :> "Siemens") @@ ("ucl" :> "GE")

\* the csv files of the paired runs: a row per subject, or no row for
\* sub-ucl01, or a "None" for sub-amu02 or for sub-ucl01
PairedRows(f) ==
    {RowsOf(f, Subjects, {}), RowsOf(f, Subjects, {"sub-amu02"}),
     RowsOf(f, Subjects, {"sub-ucl01"}), RowsOf(f, Subjects \ {"sub-ucl01"}, {})}

\* any csv files in any order, among them both paired metrics
InputsPaired ==
    LET t1 == "csa-SC_T1w.csv"
        t2 == "csa-SC_T2w.csv"
        m  == "MTR.csv"
    IN  {Input(Participants({}, vendorOf), excl, files,
               (t1 :> r1) @@ (t2 :> r2) @@ (m :> RowsOf(m, Subjects, {}))) :
            files \in InjSeqs(Files, Cardinality(Files)),
            r1 \in PairedRows(t1), r2 \in PairedRows(t2),
            vendorOf \in {DefaultVendors, GeLastSite},
            excl \in {EmptyDict, "csa_t1" :> <<"sub-amu01">>, "csa_t2" :> <<"brno">>}}

\* what dict_exclude_subj holds for a document: the entry of csa_t1 of the
\* mappings (the scalar is a subject id, the null has no token)
EntriesOf(document) ==
    CASE document = "mapping of scalars" -> "csa_t1" :> <<"sub-amu01">>
      [] document = "mapping of nulls"   -> "csa_t1" :> <<>>
      [] OTHER                           -> EmptyDict

\* one metric file, without a row or with a row per subject; every
\* exclusion file that is not a mapping of sequences
InputsConfig ==
    LET f == "csa-SC_T1w.csv"
    IN  {[Input(Participants({}, DefaultVendors), EntriesOf(document), <<f>>, f :> rows)
             EXCEPT !.yml = safe_load(document)] :
            document \in YamlDocuments \ {"mapping of sequences"},
            rows \in {<<>>, RowsOf(f, Subjects, {})}}

Inputs == InputsExclusion \cup InputsMetadata \cup InputsPaired \cup InputsConfig

(***************************************************************************)
(* The state of a run of main.                                             *)
(***************************************************************************)
VARIABLES
    participants,       \* participants.tsv
    dict_exclude_subj,  \* the exclusion dict
    yml,                \* the Python type of what dict_exclude_subj holds
    csv_files,          \* glob('*.csv')
    csv_data,           \* the rows of each csv file
    pc,                 \* where main is
    k,                  \* index of csv_file in csv_files
    metric,
    dict_results,
    i,                  \* index of aggregate_per_site's loop
    agg,                \* its results_agg, subjects_removed, exception
    df,
    stats,
    tukey_test,
    csa_t1,
    csa_t2,
    CSA_dict,
    vi,                 \* index of the per-vendor loop of generate_figure_t1_t2
    reg,                \* the linear fits computed so far
    error               \* the uncaught exception that ended the run

inputs == <<participants, dict_exclude_subj, yml, csv_files, csv_data>>
vars == <<participants, dict_exclude_subj, yml, csv_files, csv_data, pc, k, metric,
          dict_results, i, agg, df, stats, tukey_test, csa_t1, csa_t2, CSA_dict,
          vi, reg, error>>

Unbound == [bound |-> FALSE, values |-> <<>>]
Bound(v) == [bound |-> TRUE, values |-> v]

InitWith(inp) ==
    /\ participants = inp.participants
    /\ dict_exclude_subj = inp.dict_exclude_subj
    /\ yml = inp.yml
    /\ csv_files = inp.csv_files
    /\ csv_data = inp.csv_data
    /\ pc = "csv_file"
    /\ k = 1
    /\ metric = ""
    /\ dict_results = <<>>
    /\ i = 1
    /\ agg = AggInit
    /\ df = <<>>
    /\ stats = NoStats
    /\ tukey_test = NoTukey
    /\ csa_t1 = Unbound
    /\ csa_t2 = Unbound
    /\ CSA_dict = <<>>
    /\ vi = 1
    /\ reg = <<>>
    /\ error = NoError

Init == \E inp \in Inputs : InitWith(inp)

Fail(e) == pc' = "error" /\ error' = e


(***************************************************************************)
(* main, lines 721-743: the next csv file is read and its metric fetched;  *)
(* without any csv file main raises RuntimeError.                          *)
(***************************************************************************)
NoCsvFiles ==
    /\ pc = "csv_file" /\ csv_files = <<>>
    /\ Fail(Raise("RuntimeError", 725, {}))
    /\ UNCHANGED <<inputs, k, metric, dict_results, i, agg, df, stats, tukey_test,
                   csa_t1, csa_t2, CSA_dict, vi, reg>>

OpenCsv ==
    /\ pc = "csv_file" /\ k <= Len(csv_files)
    /\ dict_results' = csv_data[csv_files[k]]
    /\ metric' = file_to_metric[csv_files[k]]
    /\ i' = 1
    /\ agg' = AggInit
    \* line 743: the arguments of the call of aggregate_per_site
    /\ IF yml = "unbound" THEN Fail(Raise("UnboundLocalError", 743, {}))
       ELSE pc' = "aggregate_per_site" /\ UNCHANGED error
    /\ UNCHANGED <<inputs, k, df, stats, tukey_test, csa_t1, csa_t2, CSA_dict, vi, reg>>

(***************************************************************************)
(* aggregate_per_site: one iteration of the loop over the rows, and the    *)
(* return of results_agg.                                                  *)
(***************************************************************************)
AggregateRow ==
    /\ pc = "aggregate_per_site" /\ i <= Len(dict_results)
    /\ LET e  == remove_subject_raises(metric, dict_exclude_subj, yml)
           st == IF e # NoError THEN [agg EXCEPT !.raised = e]
                 ELSE aggregate_body(agg, dict_results[i], metric, dict_exclude_subj,
                                     participants)
       IN  /\ agg' = st
           /\ IF st.raised # NoError
              THEN Fail(st.raised) /\ i' = i
              ELSE i' = i + 1 /\ UNCHANGED <<pc, error>>
    /\ UNCHANGED <<inputs, k, metric, dict_results, df, stats, tukey_test, csa_t1,
                   csa_t2, CSA_dict, vi, reg>>

\* the return inside the loop: after the first row
AggregateReturnEarly ==
    /\ pc = "aggregate_per_site" /\ (i > Len(dict_results) \/ i > 1)
    /\ pc' = "exclude"
    /\ UNCHANGED <<inputs, k, metric, dict_results, i, agg, df, stats, tukey_test,
                   csa_t1, csa_t2, CSA_dict, vi, reg, error>>

AggregateReturn ==
    /\ pc = "aggregate_per_site" /\ i > Len(dict_results)
    /\ pc' = "exclude"
    /\ UNCHANGED <<inputs, k, metric, dict_results, i, agg, df, stats, tukey_test,
                   csa_t1, csa_t2, CSA_dict, vi, reg, error>>

(***************************************************************************)
(* main, lines 745-753: the DataFrame and its 'exclude' column.            *)
(***************************************************************************)
PostPass ==
    /\ pc = "exclude"
    /\ LET e == post_pass_raises(metric, dict_exclude_subj, yml)
       IN  IF e # NoError
           \* df['exclude'] = False is all that was done
           THEN df' = post_pass(agg.results_agg, metric, EmptyDict) /\ Fail(e)
           ELSE /\ df' = post_pass(agg.results_agg, metric, dict_exclude_subj)
                /\ pc' = "compute_statistics"
                /\ UNCHANGED error
    /\ UNCHANGED <<inputs, k, metric, dict_results, i, agg, stats, tukey_test,
                   csa_t1, csa_t2, CSA_dict, vi, reg>>

(***************************************************************************)
(* main, line 756: compute_statistics.                                     *)
(***************************************************************************)
ComputeStatistics ==
    /\ pc = "compute_statistics"
    /\ LET r == compute_statistics(df)
       IN  \E lib \in LibBehaviours :
              LET e == compute_statistics_raises(df, lib)
              IN  IF e # NoError
                  THEN Fail(e) /\ UNCHANGED <<df, stats, tukey_test>>
                  ELSE /\ df' = r.df
                       /\ stats' = r.stats
                       /\ tukey_test' = r.tukey_test
                       /\ pc' = "generate_figure_metric"
                       /\ UNCHANGED error
    /\ UNCHANGED <<inputs, k, metric, dict_results, i, agg, csa_t1, csa_t2,
                   CSA_dict, vi, reg>>

(***************************************************************************)
(* main, line 759: generate_figure_metric.                                 *)
(***************************************************************************)
GenerateFigureMetric ==
    /\ pc = "generate_figure_metric"
    /\ \E strict_limits \in BOOLEAN :
          LET e == generate_figure_metric(df, strict_limits)
          IN  IF e # NoError THEN Fail(e)
              ELSE pc' = "keep_csa" /\ UNCHANGED error
    /\ UNCHANGED <<inputs, k, metric, dict_results, i, agg, df, stats, tukey_test,
                   csa_t1, csa_t2, CSA_dict, vi, reg>>

(***************************************************************************)
(* main, lines 761-765: the tables of csa_t1 and csa_t2 are kept; then the *)
(* next csv file.                                                          *)
(***************************************************************************)
\* the table of a metric that is not paired kept as csa_t1 and as csa_t2
KeepCsaAnyMetric ==
    /\ pc = "keep_csa"
    /\ csa_t1' = IF metric # "csa_t2" THEN Bound(sort_values_site(df)) ELSE csa_t1
    /\ csa_t2' = IF metric # "csa_t1" THEN Bound(sort_values_site(df)) ELSE csa_t2
    /\ k' = k + 1
    /\ pc' = IF k + 1 <= Len(csv_files) THEN "csv_file" ELSE "generate_figure_t1_t2"
    /\ UNCHANGED <<inputs, metric, dict_results, i, agg, df, stats, tukey_test,
                   CSA_dict, vi, reg, error>>

KeepCsa ==
    /\ pc = "keep_csa"
    /\ csa_t1' = IF metric = "csa_t1" THEN Bound(sort_values_site(df)) ELSE csa_t1
    /\ csa_t2' = IF metric = "csa_t1" THEN csa_t2
                 ELSE IF metric = "csa_t2" THEN Bound(sort_values_site(df)) ELSE csa_t2
    /\ k' = k + 1
    /\ pc' = IF k + 1 <= Len(csv_files) THEN "csv_file" ELSE "generate_figure_t1_t2"
    /\ UNCHANGED <<inputs, metric, dict_results, i, agg, df, stats, tukey_test,
                   CSA_dict, vi, reg, error>>

(***************************************************************************)
(* main, line 768, and generate_figure_t1_t2, lines 516-524: the call      *)
(* (UnboundLocalError when csa_t1 or csa_t2 was never assigned) and the    *)
(* loop that fills CSA_dict.                                               *)
(***************************************************************************)
BuildCsaDict ==
    /\ pc = "generate_figure_t1_t2"
    /\ IF ~csa_t1.bound \/ ~csa_t2.bound
       THEN Fail(Raise("UnboundLocalError", 768, {})) /\ UNCHANGED CSA_dict
       ELSE LET r == build_CSA_dict(<<>>, csa_t1.values, csa_t2.values, 1)
            IN  /\ CSA_dict' = r.CSA_dict
                /\ IF r.raised # NoError THEN Fail(r.raised)
                   ELSE pc' = "agreement_figure" /\ UNCHANGED error
    /\ UNCHANGED <<inputs, k, metric, dict_results, i, agg, df, stats, tukey_test,
                   csa_t1, csa_t2, vi, reg>>

(***************************************************************************)
(* generate_figure_t1_t2, lines 526-550: the figure of all vendors.        *)
(***************************************************************************)
AgreementFigure ==
    /\ pc = "agreement_figure"
    /\ LET e == agreement_figure(CSA_dict, FromKeys(vendor_sorted(df)))
       IN  IF e # NoError THEN Fail(e)
           ELSE pc' = "per_vendor" /\ UNCHANGED error
    /\ vi' = 1
    /\ UNCHANGED <<inputs, k, metric, dict_results, i, agg, df, stats, tukey_test,
                   csa_t1, csa_t2, CSA_dict, reg>>

(***************************************************************************)
(* generate_figure_t1_t2, lines 555-609: one vendor's subplot and linear   *)
(* fit.  min(x) of an empty x raises ValueError (line 575).                *)
(***************************************************************************)
RegressVendor ==
    /\ pc = "per_vendor" /\ vi <= Len(FromKeys(vendor_sorted(df)))
    /\ LET vendor == FromKeys(vendor_sorted(df))[vi]
           x == XOf(CSA_dict, vendor)
           y == YOf(CSA_dict, vendor)
       IN  IF x = <<>>
           THEN Fail(Raise("ValueError", 575, {})) /\ UNCHANGED <<reg, vi>>
           ELSE /\ reg' = Append(reg, [vendor |-> vendor, fit |-> compute_regression(x, y)])
                /\ vi' = vi + 1
                /\ UNCHANGED <<pc, error>>
    /\ UNCHANGED <<inputs, k, metric, dict_results, i, agg, df, stats, tukey_test,
                   csa_t1, csa_t2, CSA_dict>>

SaveFigure ==
    /\ pc = "per_vendor" /\ vi > Len(FromKeys(vendor_sorted(df)))
    /\ pc' = "done"
    /\ UNCHANGED <<inputs, k, metric, dict_results, i, agg, df, stats, tukey_test,
                   csa_t1, csa_t2, CSA_dict, vi, reg, error>>

Next ==
    \/ NoCsvFiles
    \/ OpenCsv
    \/ AggregateRow
    \/ AggregateReturn
    \/ PostPass
    \/ ComputeStatistics
    \/ GenerateFigureMetric
    \/ KeepCsa
    \/ BuildCsaDict
    \/ AgreementFigure
    \/ RegressVendor
    \/ SaveFigure

Spec == Init /\ [][Next]_vars


(***************************************************************************)
(* Vocabulary of the properties.                                           *)
(***************************************************************************)
\* the exclusion list of the metric being processed ([] without an entry)
ExclusionList == IF metric \in DOMAIN dict_exclude_subj
                 THEN dict_exclude_subj[metric] ELSE <<>>
SubjectOfRow(j) == fetch_subject(dict_results[j]["Filename"])
RawValueOfRow(j) == dict_results[j][metric_to_field[metric]]
\* the rows aggregate_per_site has gone through
Processed == IF pc = "aggregate_per_site" THEN 1 .. (i - 1) ELSE {}
\* the site participants.tsv gives a subject (the subject has a row)
HasMeta(subject) == RowIndex(participants, subject) # {}
SiteOfSubject(subject) == participants[First(RowIndex(participants, subject))].institution_id
ListedVerbatim(subject) == subject \in Range(ExclusionList)
SiteListed(subject) == HasMeta(subject) /\ SiteOfSubject(subject) \in Range(ExclusionList)
Removed(subject) == subject \in Range(agg.subjects_removed)
Accumulated(subject) ==
    \E j \in DOMAIN agg.results_agg : subject \in Range(agg.results_agg[j].src)

(***************************************************************************)
(* C1 as stated: remove_subject returns true for a subject listed verbatim *)
(* in the metric's exclusion list and also for a subject whose site is     *)
(* listed as a bare site token, so every such record that                  *)
(* aggregate_per_site has gone through was put on the removed list.        *)
(***************************************************************************)
C1_RemovedBySubjectOrSiteToken ==
    \A j \in Processed :
        (ListedVerbatim(SubjectOfRow(j)) \/ SiteListed(SubjectOfRow(j)))
            => /\ remove_subject(SubjectOfRow(j), metric, dict_exclude_subj)
               /\ Removed(SubjectOfRow(j))

(***************************************************************************)
(* C1 amended: remove_subject returns true exactly for the subjects listed *)
(* verbatim in the metric's exclusion list; a bare site token does not     *)
(* make it true for the subjects of that site.  So the records             *)
(* aggregate_per_site has gone through are on the removed list exactly     *)
(* when their subject is listed verbatim.                                  *)
(***************************************************************************)
C1_RemovedExactlyWhenListedVerbatim ==
    \A j \in Processed :
        /\ remove_subject(SubjectOfRow(j), metric, dict_exclude_subj)
              <=> ListedVerbatim(SubjectOfRow(j))
        /\ Removed(SubjectOfRow(j)) <=> ListedVerbatim(SubjectOfRow(j))

\* a subject whose site is excluded by a bare token, and which is not
\* listed itself, went through the loop and its value was accumulated
C1_Witness ==
    \E j \in Processed :
        /\ SiteListed(SubjectOfRow(j)) /\ ~ListedVerbatim(SubjectOfRow(j))
        /\ Accumulated(SubjectOfRow(j))
        /\ \E j2 \in Processed : ListedVerbatim(SubjectOfRow(j2)) /\ Removed(SubjectOfRow(j2))


(***************************************************************************)
(* Permutations and multisets, for the order-independence properties.      *)
(***************************************************************************)
\* the rearrangements of a sequence
Perms(seq) ==
    {[j \in DOMAIN seq |-> seq[f[j]]] :
        f \in {g \in [DOMAIN seq -> DOMAIN seq] :
                  \A a, b \in DOMAIN seq : a # b => g[a] # g[b]}}
Occurrences(seq, x) == Cardinality({j \in DOMAIN seq : seq[j] = x})
SameMultiset(s1, s2) ==
    /\ Len(s1) = Len(s2)
    /\ \A x \in Range(s1) \cup Range(s2) : Occurrences(s1, x) = Occurrences(s2, x)
SitesOf(results) == {results[j].site : j \in DOMAIN results}
ValOf(results, site) == results[SiteIdx(results, site)].val
\* two aggregation results hold the same sites with the same values, the
\* order within a site's list aside
SameSiteValues(r1, r2) ==
    /\ SitesOf(r1) = SitesOf(r2)
    /\ \A site \in SitesOf(r1) : SameMultiset(ValOf(r1, site), ValOf(r2, site))

\* aggregate_per_site has returned results_agg
Aggregated == pc = "exclude"

(***************************************************************************)
(* C2: when aggregate_per_site has returned, every entry of every site's   *)
(* value list is the parsed value of a record whose raw value is not       *)
(* "None" and whose subject remove_subject does not exclude for the        *)
(* metric (and no such record of the site is left out), and every          *)
(* rearrangement of the same records gives each site the same multiset of  *)
(* values.                                                                 *)
(***************************************************************************)
C2_NoNoneNoExcludedAnyOrder ==
    Aggregated =>
        /\ \A n \in DOMAIN agg.results_agg :
              LET e == agg.results_agg[n]
                  kept == {j \in DOMAIN dict_results :
                              /\ ~ListedVerbatim(SubjectOfRow(j))
                              /\ RawValueOfRow(j) # NoneText
                              /\ SiteOfSubject(SubjectOfRow(j)) = e.site}
              IN  /\ Len(e.val) = Len(e.src)
                  /\ Len(e.val) = Cardinality(kept)
                  /\ \A m \in DOMAIN e.val :
                        \E j \in kept : /\ SubjectOfRow(j) = e.src[m]
                                        /\ e.val[m] = float(RawValueOfRow(j))
        /\ \A rows \in Perms(dict_results) :
              LET other == aggregate_loop(AggInit, rows, metric, dict_exclude_subj,
                                          participants)
              IN  /\ other.raised = NoError
                  /\ SameSiteValues(other.results_agg, agg.results_agg)

\* the loop went through four records in an order that is not the one of
\* participants.tsv, skipped a "None", removed an excluded subject and
\* accumulated the other two
C2_Witness ==
    /\ Aggregated
    /\ Len(dict_results) = 4
    /\ SubjectOfRow(1) = "sub-ucl01" /\ SubjectOfRow(2) = "sub-amu02"
    /\ \E j \in DOMAIN dict_results : RawValueOfRow(j) = NoneText
    /\ agg.subjects_removed # <<>>
    /\ \E n \in DOMAIN agg.results_agg : agg.results_agg[n].val # <<>>


(***************************************************************************)
(* Vocabulary of the properties on the statistics.                         *)
(***************************************************************************)
\* compute_statistics has returned for the metric being processed
StatsComputed == pc \in {"generate_figure_metric", "keep_csa"}
DfSites == {df[j].site : j \in DOMAIN df}
DfRow(site) == df[CHOOSE j \in DOMAIN df : df[j].site = site]
ExcludedSites == {site \in DfSites : DfRow(site).exclude}
\* the sites whose mean is an input of the ANOVA across vendors / of Tukey's test
AnovaSites ==
    UNION {{stats.anova_vendor[g][j].site : j \in DOMAIN stats.anova_vendor[g]} :
              g \in DOMAIN stats.anova_vendor}
TukeySites == {tukey_test.data[j].site : j \in DOMAIN tukey_test.data}

(***************************************************************************)
(* C3 as stated: the one-way ANOVA across the vendors and the Tukey HSD    *)
(* test of compute_statistics take only the means of the sites whose       *)
(* excluded flag is false.                                                 *)
(***************************************************************************)
C3_AnovaAndTukeyLeaveOutExcludedSites ==
    StatsComputed =>
        /\ AnovaSites \cap ExcludedSites = {}
        /\ TukeySites \cap ExcludedSites = {}

(***************************************************************************)
(* Exact arithmetic on the reals of the model, for restating a statistic   *)
(* without the operator that computes it.                                  *)
(***************************************************************************)
\* x * q and x * x for a rational q
RealTimes(x, q) ==
    IF ~IsNum(x) THEN x
    ELSE Num({[c |-> RMul(m.c, q), r |-> m.r] : m \in {m2 \in x.t : q[1] # 0}})
\* the square of a real of at most one term
SquareOf(x) ==
    IF x.t = {} THEN RInt(0)
    ELSE LET m == CHOOSE m2 \in x.t : TRUE IN RMul(RMul(m.c, m.c), RInt(m.r))
RECURSIVE SumOver(_, _)
\* the sum of f[j], j in S, for a function f to reals
SumOver(S, f) ==
    IF S = {} THEN Zero
    ELSE LET j == CHOOSE j2 \in S : TRUE IN RealAdd(f[j], SumOver(S \ {j}, f))

\* the rows of df a vendor's statistics are to be computed from
Eligible(vendor) == {j \in DOMAIN df : df[j].vendor = vendor /\ ~df[j].exclude}

\* stats[...][vendor] are the statistics of the rows S of df: the mean and the
\* population standard deviation of the site means that are defined, their
\* quotient, and the mean of the cov of all the rows of S
VendorStatsAreOver(vendor, S) ==
    LET D == {j \in S : IsNum(df[j].mean)}
        n == Cardinality(D)
        mean == stats.mean[vendor]
        std == stats.std[vendor]
        dev == [j \in D |-> FromRat(SquareOf(RealAdd(df[j].mean, RealTimes(mean, RInt(-1)))))]
        cov == [j \in S |-> df[j].cov]
    IN  /\ IF D = {} THEN IsNaN(mean) /\ IsNaN(std)
           ELSE /\ IsNum(mean) /\ IsNum(std)
                /\ RealTimes(mean, RInt(n)) = SumOver(D, [j \in D |-> df[j].mean])
                /\ FromRat(RMul(SquareOf(std), RInt(n))) = SumOver(D, dev)
                /\ \A m \in std.t : m.c[1] > 0
        /\ stats.cov_inter[vendor] = RealDiv(std, mean)
        /\ IF S = {} \/ \E j \in S : IsNaN(df[j].cov) THEN IsNaN(stats.cov_intra[vendor])
           ELSE RealTimes(stats.cov_intra[vendor], RInt(Cardinality(S))) = SumOver(S, cov)

(***************************************************************************)
(* C4: when the metric's exclusion list names a site by its bare name, the *)
(* site's values are still accumulated and its own mean and std are still  *)
(* computed, and the mean, std, cov_inter and cov_intra of every vendor    *)
(* are computed from exactly the sites of the vendor whose excluded flag   *)
(* is false (a site's undefined mean is skipped by the vendor's mean and   *)
(* std); with amu = [10, 12] and brno = [20] of vendor GE and brno         *)
(* excluded, mean[GE] is 11.                                               *)
(***************************************************************************)
C4_ExcludedSiteKeptButLeftOutOfVendorStats ==
    StatsComputed =>
        /\ \A j \in DOMAIN df :
              /\ df[j].val = agg.results_agg[j].val
              /\ \A n \in DOMAIN dict_results :
                    (/\ ~ListedVerbatim(SubjectOfRow(n))
                     /\ RawValueOfRow(n) # NoneText
                     /\ SiteOfSubject(SubjectOfRow(n)) = df[j].site)
                        => SubjectOfRow(n) \in Range(df[j].src)
              /\ df[j].val # <<>> =>
                    /\ RealTimes(df[j].mean, RInt(Len(df[j].val))) = FromInt(SumSeq(df[j].val))
                    /\ df[j].std = NpStd(df[j].val)
        /\ \A v \in Range(vendors) : VendorStatsAreOver(v, Eligible(v))
        /\ (/\ DfSites \cap {"amu", "brno"} = {"amu", "brno"}
            /\ \A j \in DOMAIN df : df[j].vendor = "GE" <=> df[j].site \in {"amu", "brno"}
            /\ DfRow("amu").val \in {<<10, 12>>, <<12, 10>>} /\ ~DfRow("amu").exclude
            /\ DfRow("brno").val = <<20>> /\ DfRow("brno").exclude)
              => stats.mean["GE"] = FromInt(11)

\* the exclusion list names brno: brno = [20] has its mean of 20 in df, and
\* the mean of GE is the one of amu = [10, 12] alone
C4_Witness ==
    /\ StatsComputed
    /\ "brno" \in Range(ExclusionList)
    /\ "brno" \in DfSites /\ "amu" \in DfSites
    /\ DfRow("brno").exclude /\ DfRow("brno").val = <<20>>
    /\ DfRow("brno").mean = FromInt(20)
    /\ DfRow("amu").val = <<10, 12>> /\ DfRow("amu").vendor = "GE"
    /\ DfRow("brno").vendor = "GE"
    /\ stats.mean["GE"] = FromInt(11)


(***************************************************************************)
(* C5 as stated: when aggregate_per_site meets a record of a subject that  *)
(* is not excluded and has no row in participants.tsv, the run ends in an  *)
(* error that identifies the subject; aggregation never goes past such a   *)
(* record.                                                                 *)
(***************************************************************************)
C5_MissingSubjectErrorNamesTheSubject ==
    /\ pc = "aggregate_per_site" =>
          \A j \in Processed :
             ~ListedVerbatim(SubjectOfRow(j)) => HasMeta(SubjectOfRow(j))
    /\ (pc = "error" /\ error.line = 246) =>
          /\ ~ListedVerbatim(SubjectOfRow(i)) /\ ~HasMeta(SubjectOfRow(i))
          /\ SubjectOfRow(i) \in error.mentions

(***************************************************************************)
(* C6 as stated: when an aggregated site carries a vendor outside          *)
(* {GE, Philips, Siemens}, compute_statistics ends in an error: it never   *)
(* returns statistics for a table with such a site.                        *)
(***************************************************************************)
C6_UnknownVendorIsADataError ==
    StatsComputed => \A j \in DOMAIN df : df[j].vendor \in Range(vendors)

(***************************************************************************)
(* Vocabulary of the properties on the regression of csa_t1 on csa_t2.     *)
(***************************************************************************)
\* the vendors generate_figure_t1_t2 loops over
FigureVendors == Range(FromKeys(vendor_sorted(df)))
\* the vendors a fit was reported for
Fitted == {reg[j].vendor : j \in DOMAIN reg}
\* the number of pairs of a vendor (none when x and y differ in length)
Pairs(v) == IF Len(XOf(CSA_dict, v)) = Len(YOf(CSA_dict, v))
            THEN Len(XOf(CSA_dict, v)) ELSE 0
\* the run went through the loop over the vendors' fits and ended
RegressionEnded == pc = "done" \/ (pc = "error" /\ error.line = 575)

(***************************************************************************)
(* C7 as stated: a vendor with fewer than two paired observations has no   *)
(* slope, intercept and R2 reported, and the fit of every other vendor     *)
(* with at least two pairs is still produced.                              *)
(***************************************************************************)
C7_TooFewPairsFailsThatVendorOnly ==
    /\ \A j \in DOMAIN reg : reg[j].fit.n >= 2
    /\ RegressionEnded => \A v \in FigureVendors : Pairs(v) >= 2 => v \in Fitted

(***************************************************************************)
(* C8 as stated: for every vendor, x and y handed to the regression have   *)
(* the same length and the i-th x and the i-th y are the values of the     *)
(* same subject.                                                           *)
(***************************************************************************)
C8_RegressionPairsAreAlignedBySubject ==
    \A j \in DOMAIN reg :
       XSrc(CSA_dict, reg[j].vendor) = YSrc(CSA_dict, reg[j].vendor)


(***************************************************************************)
(* Vocabulary of the properties on the exclusion list: the list written    *)
(* another way, and the per-site table main computes with it.              *)
(***************************************************************************)
RECURSIVE Once(_)
\* every token once, at its first place
Once(l) ==
    IF l = <<>> THEN <<>>
    ELSE LET front == SubSeq(l, 1, Len(l) - 1)
         IN  IF l[Len(l)] \in Range(front) THEN Once(front)
             ELSE Append(Once(front), l[Len(l)])
Reverse(l) == [j \in DOMAIN l |-> l[Len(l) + 1 - j]]
Without(l, token) == SelectSeq(l, LAMBDA t : t # token)
\* the site tokens of the list that name the site of a listed subject token
SiteTokensOfListedSubjects(l) ==
    {s \in Range(l) : \E t \in Range(l) :
        startswith_sub(t) /\ HasMeta(t) /\ SiteOfSubject(t) = s}
\* the per-site table of the metric being processed with l as its list
TableFor(l) ==
    LET excl == (metric :> l) @@ dict_exclude_subj
        results_dict == aggregate_loop(AggInit, dict_results, metric, excl,
                                       participants).results_agg
    IN  compute_statistics(post_pass(results_dict, metric, excl)).df
\* the table without the column of the excluded flags
Unflagged(table) == [j \in DOMAIN table |-> [table[j] EXCEPT !.exclude = FALSE]]

(***************************************************************************)
(* C9 as stated: listing a subject token twice, listing the tokens in      *)
(* another order, or listing a subject's token and also its site's bare    *)
(* token gives the same per-site table (values, mean, std, cov, excluded   *)
(* flag) as listing the subject once.                                      *)
(***************************************************************************)
C9_SameTableWithSiteTokenAdded ==
    StatsComputed =>
        /\ TableFor(Once(ExclusionList)) = df
        /\ TableFor(Reverse(ExclusionList)) = df
        /\ \A s \in SiteTokensOfListedSubjects(ExclusionList) :
              TableFor(Without(ExclusionList, s)) = df

(***************************************************************************)
(* C9 amended: listing a token twice or listing the tokens in another      *)
(* order gives the same per-site table, excluded flags included.  Listing  *)
(* a subject's token and also its site's bare token gives the same site    *)
(* values, mean, std and cov of every site as listing the subject alone,   *)
(* but not the same excluded flag: the site's flag is set by the bare site *)
(* token and is not set by the subject token.                              *)
(***************************************************************************)
C9_SameTableUpToTheFlagOfTheSite ==
    StatsComputed =>
        /\ TableFor(Once(ExclusionList)) = df
        /\ TableFor(Reverse(ExclusionList)) = df
        /\ \A s \in SiteTokensOfListedSubjects(ExclusionList) :
              LET alone == TableFor(Without(ExclusionList, s))
              IN  /\ Unflagged(alone) = Unflagged(df)
                  /\ \A j \in DOMAIN df :
                        /\ df[j].site = s => df[j].exclude /\ ~alone[j].exclude
                        /\ df[j].site # s => df[j].exclude = alone[j].exclude

\* sub-amu01 is excluded by its token and by the token of its site; the
\* site amu has the value of sub-amu02 and is flagged
C9_Witness ==
    /\ StatsComputed
    /\ ExclusionList \in {<<"sub-amu01", "amu">>, <<"amu", "sub-amu01">>}
    /\ "amu" \in DfSites
    /\ DfRow("amu").val = <<12>> /\ DfRow("amu").exclude

(***************************************************************************)
(* Vocabulary of the properties on the post-pass.                          *)
(***************************************************************************)
\* the post-pass of main has set the exclude column of df
PostPassDone == pc \in {"compute_statistics", "generate_figure_metric", "keep_csa"}
\* a subject of the site, by participants.tsv, is among the tokens
SubjectOfSiteListed(site) ==
    \E t \in Range(ExclusionList) : HasMeta(t) /\ SiteOfSubject(t) = site

(***************************************************************************)
(* C10 as stated: after the post-pass of main the excluded flag of a site  *)
(* of the table is true if the site's bare name is among the metric's      *)
(* exclusion tokens or if a subject of the site is among them.             *)
(***************************************************************************)
C10_FlaggedBySiteOrSubjectToken ==
    PostPassDone =>
        \A j \in DOMAIN df :
           (df[j].site \in Range(ExclusionList) \/ SubjectOfSiteListed(df[j].site))
               => df[j].exclude

(***************************************************************************)
(* C10 amended: after the post-pass of main the excluded flag of a site of *)
(* the table is true exactly when the site's bare name is among the        *)
(* metric's exclusion tokens, whether or not values of the site were       *)
(* accumulated; a subject token does not set the flag of the subject's     *)
(* site.                                                                   *)
(***************************************************************************)
C10_FlaggedExactlyByBareSiteToken ==
    PostPassDone =>
        \A j \in DOMAIN df : df[j].exclude <=> df[j].site \in Range(ExclusionList)

\* brno is listed and flagged; sub-amu01 is listed and amu, which has the
\* value of sub-amu02, is not flagged
C10_Witness ==
    /\ PostPassDone
    /\ Range(ExclusionList) = {"brno", "sub-amu01"}
    /\ "brno" \in DfSites /\ DfRow("brno").exclude /\ DfRow("brno").val = <<20>>
    /\ "amu" \in DfSites /\ ~DfRow("amu").exclude /\ DfRow("amu").val = <<12>>


(***************************************************************************)
(* Vocabulary of the properties on degenerate statistics.                  *)
(***************************************************************************)
\* the sites of df without a value
EmptySites == {site \in DfSites : DfRow(site).val = <<>>}
\* the run was ended by the undefined mean of a site without a value: by
\* the y-limits of the figure, or by Tukey's test on data that is
\* degenerate only for that mean
AbortedByUndefinedMean ==
    /\ pc = "error"
    /\ EmptySites # {}
    /\ \/ error.line = 462
       \/ /\ error.line = 348
          /\ ~TukeyTooFewGroups(df)
          /\ Len(df) - Cardinality({df[j].vendor : j \in DOMAIN df}) >= 1

(***************************************************************************)
(* C11 as stated: a site without a value, a site whose mean is zero and a  *)
(* vendor without a non-excluded site get an undefined mean, std and cov   *)
(* (the site whose mean is zero: an undefined cov), never a zero, in the   *)
(* row of that site and in the entry of that vendor; and the run is not    *)
(* ended because of it.                                                    *)
(***************************************************************************)
C11_DegenerateIsUndefinedAndNotFatal ==
    /\ StatsComputed =>
          /\ \A j \in DOMAIN df :
                /\ df[j].val = <<>> =>
                      IsNaN(df[j].mean) /\ IsNaN(df[j].std) /\ IsNaN(df[j].cov)
                /\ df[j].mean = Zero => ~IsNum(df[j].cov)
          /\ \A v \in Range(vendors) :
                Eligible(v) = {} =>
                    /\ IsNaN(stats.mean[v]) /\ IsNaN(stats.std[v])
                    /\ IsNaN(stats.cov_inter[v]) /\ IsNaN(stats.cov_intra[v])
    /\ ~AbortedByUndefinedMean


(***************************************************************************)
(* C12 as stated: when the exclusion file exists and is not a mapping from *)
(* metric names to lists of tokens, main ends in an error before a record  *)
(* of a metric is aggregated: no record is gone through, and main gets no  *)
(* further than the call of aggregate_per_site of the first file or, for a *)
(* file without a record, the post-pass on its empty table.                *)
(***************************************************************************)
C12_MalformedConfigAbortsBeforeAggregation ==
    yml # "dict" =>
        /\ i = 1 /\ agg.results_agg = <<>> /\ agg.subjects_removed = <<>>
        /\ k = 1
        /\ pc \in {"csv_file", "aggregate_per_site", "exclude", "error"}
        /\ pc = "exclude" => dict_results = <<>>


(***************************************************************************)
(* Vocabulary of the properties on the order of the steps of main.         *)
(***************************************************************************)
\* the per-site table of a csv file: all its rows aggregated, the flags of
\* the post-pass, the columns of compute_statistics
TableOfFile(file) ==
    LET m == file_to_metric[file]
        results_dict == aggregate_loop(AggInit, csv_data[file], m, dict_exclude_subj,
                                       participants).results_agg
    IN  compute_statistics(post_pass(results_dict, m, dict_exclude_subj)).df
\* main is at a step of the processing of the metric file csv_files[k]
InMetricSteps ==
    pc \in {"aggregate_per_site", "exclude", "compute_statistics",
            "generate_figure_metric", "keep_csa"}
\* generate_figure_t1_t2 is past its call
RegressionStarted == pc \in {"agreement_figure", "per_vendor", "done"}

(***************************************************************************)
(* C13: each metric file is fully aggregated and statistically summarized  *)
(* before the next metric file is touched (main goes on to the next file   *)
(* only from the end of the steps of the current one, when df is the table *)
(* of all the rows of the current file), and the regression of csa_t1 on   *)
(* csa_t2 starts only after every metric file went through these steps,    *)
(* with the tables of csa_t1 and csa_t2 made from the files of this run.   *)
(***************************************************************************)
C13_MetricsInSequenceThenRegression ==
    /\ [](InMetricSteps =>
             /\ k \in DOMAIN csv_files
             /\ dict_results = csv_data[csv_files[k]]
             /\ metric = file_to_metric[csv_files[k]])
    /\ []((pc = "csv_file" /\ k > 1) => df = TableOfFile(csv_files[k - 1]))
    /\ [][k' # k => /\ pc = "keep_csa" /\ k' = k + 1
                    /\ df = TableOfFile(csv_files[k])]_vars
    /\ [](RegressionStarted =>
             /\ k = Len(csv_files) + 1
             /\ {"csa-SC_T1w.csv", "csa-SC_T2w.csv"} \subseteq Range(csv_files)
             /\ csa_t1 = Bound(sort_values_site(TableOfFile("csa-SC_T1w.csv")))
             /\ csa_t2 = Bound(sort_values_site(TableOfFile("csa-SC_T2w.csv"))))

\* three metric files went through, csa_t1 before mtr before csa_t2, and the
\* regression gave its fits
C13_Witness ==
    /\ pc = "done"
    /\ csv_files = <<"csa-SC_T1w.csv", "MTR.csv", "csa-SC_T2w.csv">>
    /\ reg # <<>>


(***************************************************************************)
(* C14: when the metric has no entry in the exclusion dict, remove_subject *)
(* is false for every subject; so with a dict without an entry for the     *)
(* metric, and with the empty dict of an empty or absent configuration for *)
(* every metric, no record is put on the removed list, every record gone   *)
(* through that has a value is accumulated and the post-pass flags no      *)
(* site.  No step changes the exclusion dict.                              *)
(***************************************************************************)
C14_NoEntryExcludesNothing ==
    /\ []((/\ yml \in {"dict", "dict of str", "dict of NoneType"}
           /\ metric # ""
           /\ metric \notin DOMAIN dict_exclude_subj) =>
              /\ \A subject \in Subjects :
                    ~remove_subject(subject, metric, dict_exclude_subj)
              /\ agg.subjects_removed = <<>>
              /\ \A j \in Processed :
                    RawValueOfRow(j) # NoneText => Accumulated(SubjectOfRow(j))
              /\ PostPassDone => \A j \in DOMAIN df : ~df[j].exclude)
    /\ [][dict_exclude_subj' = dict_exclude_subj /\ yml' = yml]_vars

\* the dict has the entry mtr: [sub-amu01] only; csa_t1 is processed, the
\* value of sub-amu01 is accumulated and amu is not flagged
C14_Witness ==
    /\ PostPassDone
    /\ metric = "csa_t1"
    /\ dict_exclude_subj = ("mtr" :> <<"sub-amu01">>)
    /\ "amu" \in DfSites
    /\ "sub-amu01" \in Range(DfRow("amu").src)
    /\ ~DfRow("amu").exclude


(***************************************************************************)
(* Vocabulary of the numerical properties.                                 *)
(***************************************************************************)
RECURSIVE SumSqDev(_, _)
\* the sum of (x - m)^2 over the values x of val, for a rational m
SumSqDev(val, m) ==
    IF val = <<>> THEN RInt(0)
    ELSE RAdd(RMul(RSub(RInt(val[1]), m), RSub(RInt(val[1]), m)),
              SumSqDev(Tail(val), m))
NonNegative(x) == IsNum(x) /\ \A term \in x.t : term.c[1] > 0

(***************************************************************************)
(* C15: when every site has a value, compute_statistics gives each site    *)
(* mean = the arithmetic mean of its values, std = their population        *)
(* standard deviation (N std^2 is the sum of the squared deviations from   *)
(* the mean), std >= 0 and cov = std / mean (cov mean = std), and gives    *)
(* each vendor mean = the mean of the means of its non-excluded sites and  *)
(* cov_intra = the mean of their cov.  With amu = [10, 12] and brno = [20] *)
(* the only sites of GE: mean[amu] = 11, std[amu] = 1, mean[GE] = 31/2,    *)
(* cov_intra[GE] = 1/22.                                                   *)
(***************************************************************************)
C15_MeanPopulationStdAndCov ==
    (StatsComputed /\ EmptySites = {}) =>
        /\ \A j \in DOMAIN df :
              LET n == Len(df[j].val)
              IN  /\ IsRational(df[j].mean)
                  /\ RMul(RatOf(df[j].mean), RInt(n)) = RInt(SumSeq(df[j].val))
                  /\ NonNegative(df[j].std)
                  /\ RMul(SquareOf(df[j].std), RInt(n))
                        = SumSqDev(df[j].val, RatOf(df[j].mean))
                  /\ RealTimes(df[j].cov, RatOf(df[j].mean)) = df[j].std
        /\ \A v \in Range(vendors) :
              Eligible(v) # {} =>
                 /\ RealTimes(stats.mean[v], RInt(Cardinality(Eligible(v))))
                       = SumOver(Eligible(v), [j \in Eligible(v) |-> df[j].mean])
                 /\ RealTimes(stats.cov_intra[v], RInt(Cardinality(Eligible(v))))
                       = SumOver(Eligible(v), [j \in Eligible(v) |-> df[j].cov])
        /\ (/\ {df[j].site : j \in Eligible("GE")} = {"amu", "brno"}
            /\ DfRow("amu").val \in {<<10, 12>>, <<12, 10>>}
            /\ DfRow("brno").val = <<20>>)
              => /\ DfRow("amu").mean = FromInt(11)
                 /\ DfRow("amu").std = FromInt(1)
                 /\ stats.mean["GE"] = Frac(31, 2)
                 /\ stats.cov_intra["GE"] = Frac(1, 22)

\* amu = [10, 12] and brno = [20] are the sites of GE, none excluded
C15_Witness ==
    /\ StatsComputed /\ EmptySites = {}
    /\ {df[j].site : j \in Eligible("GE")} = {"amu", "brno"}
    /\ DfRow("amu").val = <<10, 12>> /\ DfRow("brno").val = <<20>>
    /\ DfRow("amu").std = FromInt(1)
    /\ stats.mean["GE"] = Frac(31, 2)
    /\ stats.cov_intra["GE"] = Frac(1, 22)


(***************************************************************************)
(* Vocabulary of the properties on a vendor with a single site.            *)
(***************************************************************************)
\* the vendors of compute_statistics with exactly one non-excluded site
SingleSiteVendors == {v \in Range(vendors) : Cardinality(Eligible(v)) = 1}
\* the row of that site
OnlyRow(v) == df[CHOOSE j \in Eligible(v) : TRUE]
ZeroOrUndefined(x) == x = Zero \/ ~IsNum(x)

(***************************************************************************)
(* C16 as stated: for a vendor with exactly one non-excluded site the      *)
(* vendor's mean and std are the site's own mean and std, cov_inter is     *)
(* zero or undefined and cov_intra is the site's cov.                      *)
(***************************************************************************)
C16_SingleSiteVendorHasTheStdOfItsSite ==
    StatsComputed =>
        \A v \in SingleSiteVendors :
           /\ stats.mean[v] = OnlyRow(v).mean
           /\ stats.std[v] = OnlyRow(v).std
           /\ ZeroOrUndefined(stats.cov_inter[v])
           /\ stats.cov_intra[v] = OnlyRow(v).cov

(***************************************************************************)
(* C16 amended: for a vendor with exactly one non-excluded site the        *)
(* vendor's mean is the site's own mean, the vendor's std is zero (it is   *)
(* the std of the single site mean, not the std of the site's values;      *)
(* undefined when the site has no value), cov_inter is zero or undefined   *)
(* and cov_intra is the site's cov.                                        *)
(***************************************************************************)
C16_SingleSiteVendorHasStdZero ==
    StatsComputed =>
        \A v \in SingleSiteVendors :
           /\ stats.mean[v] = OnlyRow(v).mean
           /\ stats.std[v] = IF OnlyRow(v).val = <<>> THEN NaN ELSE Zero
           /\ ZeroOrUndefined(stats.cov_inter[v])
           /\ stats.cov_intra[v] = OnlyRow(v).cov

\* amu = [10, 12], with std 1, is the only non-excluded site of GE
C16_Witness ==
    /\ StatsComputed
    /\ "GE" \in SingleSiteVendors
    /\ OnlyRow("GE").site = "amu" /\ OnlyRow("GE").val = <<10, 12>>
    /\ OnlyRow("GE").std = FromInt(1)
    /\ stats.mean["GE"] = FromInt(11) /\ stats.std["GE"] = Zero


(***************************************************************************)
(* Vocabulary of the properties on what is written after the aggregation.  *)
(***************************************************************************)
\* the site aggregates of a table: site, vendor, model and values of each row
SiteAggregates(table) ==
    [j \in DOMAIN table |->
        [site |-> table[j].site, vendor |-> table[j].vendor,
         model |-> table[j].model, val |-> table[j].val]]

(***************************************************************************)
(* C17 as stated: once aggregate_per_site has returned, the site           *)
(* aggregates are not written again (the table of the post-pass, of        *)
(* compute_statistics and of the figure has the site, vendor, model and    *)
(* values aggregate_per_site returned), and no table other than those of   *)
(* csa_t1 and csa_t2 is carried from the processing of a metric into a     *)
(* later step: the table generate_figure_t1_t2 works on is one of them.    *)
(***************************************************************************)
C17_AggregatesReadOnlyAndOnlyPairedTablesCarried ==
    /\ [](PostPassDone => SiteAggregates(df) = SiteAggregates(agg.results_agg))
    /\ [][pc \notin {"csv_file", "aggregate_per_site"} => agg' = agg]_vars
    /\ [](RegressionStarted => sort_values_site(df) \in {csa_t1.values, csa_t2.values})


(***************************************************************************)
(* Vocabulary of the properties on the outcome of each record.             *)
(***************************************************************************)
\* the records of the current file aggregate_per_site has gone through
GoneThrough == 1 .. (i - 1)
\* the number of values accumulated in all the sites
ValuesAccumulated ==
    SumSeq([j \in DOMAIN agg.results_agg |-> Len(agg.results_agg[j].val)])
\* the records gone through that were skipped for "None"
SkippedForNone ==
    {j \in GoneThrough : ~ListedVerbatim(SubjectOfRow(j)) /\ RawValueOfRow(j) = NoneText}

(***************************************************************************)
(* C18: every record aggregate_per_site has gone through ends in exactly   *)
(* one of three outcomes: its subject is on the removed list (subject      *)
(* excluded), its value is in the value list of its site, or it was        *)
(* skipped for its raw value "None"; a record skipped for "None" is not on *)
(* the removed list; the removed subjects, the accumulated values and the  *)
(* "None" records add up to the records gone through (all the records of   *)
(* the file once aggregate_per_site has returned).                         *)
(***************************************************************************)
C18_RecordsArePartitioned ==
    /\ Len(agg.subjects_removed) + ValuesAccumulated + Cardinality(SkippedForNone)
          = Cardinality(GoneThrough)
    /\ pc = "exclude" => GoneThrough = DOMAIN dict_results
    /\ \A j \in GoneThrough :
          LET subject == SubjectOfRow(j)
          IN  /\ ListedVerbatim(subject) => Removed(subject) /\ ~Accumulated(subject)
              /\ j \in SkippedForNone => ~Removed(subject) /\ ~Accumulated(subject)
              /\ (~ListedVerbatim(subject) /\ RawValueOfRow(j) # NoneText)
                    => Accumulated(subject) /\ ~Removed(subject)

\* aggregate_per_site has returned from four records: one removed, one
\* skipped for "None", two accumulated
C18_Witness ==
    /\ pc = "exclude"
    /\ Len(dict_results) = 4
    /\ Len(agg.subjects_removed) = 1
    /\ Cardinality(SkippedForNone) = 1
    /\ ValuesAccumulated = 2


(***************************************************************************)
(* Vocabulary of the properties on the lookup in participants.tsv.         *)
(***************************************************************************)
\* aggregate_per_site is about to go through record i of the file
AtRecord == pc = "aggregate_per_site" /\ i <= Len(dict_results)
\* the run ended at the lookup of the site of a subject
LookupFailed == pc = "error" /\ error.type = "IndexError" /\ error.line = 246

(***************************************************************************)
(* C19: aggregate_per_site looks a subject up in participants.tsv only     *)
(* when the subject is not excluded.  A record of an excluded subject      *)
(* without a row in participants.tsv raises no error: the loop goes on     *)
(* with the subject on the removed list.  A record of a subject that is    *)
(* not excluded and has no row ends the run at the lookup, also when its   *)
(* raw value is "None".                                                    *)
(***************************************************************************)
C19_LookupOnlyForSubjectsNotExcluded ==
    /\ [][(AtRecord /\ ~HasMeta(SubjectOfRow(i)) /\ ListedVerbatim(SubjectOfRow(i)))
             => /\ pc' = pc /\ error' = NoError /\ i' = i + 1
                /\ agg'.subjects_removed = Append(agg.subjects_removed, SubjectOfRow(i))
                /\ agg'.results_agg = agg.results_agg]_vars
    /\ [][(AtRecord /\ ~HasMeta(SubjectOfRow(i)) /\ ~ListedVerbatim(SubjectOfRow(i)))
             => LookupFailed' /\ agg'.results_agg = agg.results_agg]_vars
    /\ [](LookupFailed =>
             ~HasMeta(SubjectOfRow(i)) /\ ~ListedVerbatim(SubjectOfRow(i)))
    /\ [](\A j \in GoneThrough :
             /\ ~ListedVerbatim(SubjectOfRow(j)) => HasMeta(SubjectOfRow(j))
             /\ (ListedVerbatim(SubjectOfRow(j)) /\ ~HasMeta(SubjectOfRow(j)))
                   => Removed(SubjectOfRow(j)))

\* sub-amu02, excluded and without a row in participants.tsv, went through
\* and is on the removed list; the run ended at the lookup of sub-ucl01,
\* not excluded and without a row, whose raw value is "None"
C19_Witness ==
    /\ LookupFailed
    /\ SubjectOfRow(i) = "sub-ucl01" /\ RawValueOfRow(i) = NoneText
    /\ ~HasMeta("sub-ucl01") /\ ~HasMeta("sub-amu02")
    /\ ListedVerbatim("sub-amu02") /\ Removed("sub-amu02")


(***************************************************************************)
(* Vocabulary of the properties on the sites of the aggregate.             *)
(***************************************************************************)
AggSites == {agg.results_agg[e].site : e \in DOMAIN agg.results_agg}
\* the records gone through whose subject is not excluded
KeptRecords == {j \in GoneThrough : ~ListedVerbatim(SubjectOfRow(j))}
KeptRecordsOf(site) == {j \in KeptRecords : SiteOfSubject(SubjectOfRow(j)) = site}

(***************************************************************************)
(* C20: the sites of the result of aggregate_per_site are the sites of the *)
(* records whose subject is not excluded, each site once.  The value list  *)
(* of a site is empty exactly when all those records of the site have the  *)
(* raw value "None"; a site whose records all belong to subjects excluded  *)
(* by subject tokens has no entry.                                         *)
(***************************************************************************)
C20_SitesAreTheSitesOfKeptRecords ==
    /\ AggSites = {SiteOfSubject(SubjectOfRow(j)) : j \in KeptRecords}
    /\ \A k1, k2 \in DOMAIN agg.results_agg :
          agg.results_agg[k1].site = agg.results_agg[k2].site => k1 = k2
    /\ \A e \in DOMAIN agg.results_agg :
          agg.results_agg[e].val = <<>>
             <=> \A j \in KeptRecordsOf(agg.results_agg[e].site) : RawValueOfRow(j) = NoneText
    /\ \A j \in GoneThrough :
          (HasMeta(SubjectOfRow(j)) /\ SiteOfSubject(SubjectOfRow(j)) \notin AggSites)
             => ListedVerbatim(SubjectOfRow(j))

\* aggregate_per_site returned a result with a site whose value list is
\* empty, and without the site of a record of the file
C20_Witness ==
    /\ pc = "exclude"
    /\ Len(dict_results) = 4
    /\ \E e \in DOMAIN agg.results_agg :
          agg.results_agg[e].val = <<>> /\ KeptRecordsOf(agg.results_agg[e].site) # {}
    /\ \E j \in GoneThrough :
          /\ HasMeta(SubjectOfRow(j))
          /\ SiteOfSubject(SubjectOfRow(j)) \notin AggSites
          /\ RawValueOfRow(j) # NoneText


(***************************************************************************)
(* Vocabulary of the properties on a run without both paired metrics.      *)
(***************************************************************************)
\* the csv files of the run do not include both csa_t1 and csa_t2
PairMissing == ~({"csa-SC_T1w.csv", "csa-SC_T2w.csv"} \subseteq Range(csv_files))
\* the csv files main is through with
FilesDone == {csv_files[j] : j \in 1 .. (k - 1)}
\* the statistics of the vendors of a csv file
StatsOfFile(file) ==
    LET m == file_to_metric[file]
        results_dict == aggregate_loop(AggInit, csv_data[file], m, dict_exclude_subj,
                                       participants).results_agg
    IN  compute_statistics(post_pass(results_dict, m, dict_exclude_subj)).stats
\* the call of generate_figure_t1_t2 failed for an unassigned table
CrossContrastFailed ==
    pc = "error" /\ error.type = "UnboundLocalError" /\ error.line = 768

(***************************************************************************)
(* C21: in a run with at least one csv file but not both of csa_t1 and     *)
(* csa_t2, main goes through every csv file as in any run (it leaves a     *)
(* file only at the end of its steps, with the table and the statistics of *)
(* all the rows of that file), and from the call of generate_figure_t1_t2, *)
(* reached only after the last file, the only step is the failure at line  *)
(* 768 for the unassigned table.  Such a run never starts the regression,  *)
(* never has a fit for a vendor and never ends without an error; csa_t1    *)
(* and csa_t2 are assigned from the file of their own metric only, so the  *)
(* table of another metric is never taken for them.  The failure at line   *)
(* 768 happens in no other run.                                            *)
(***************************************************************************)
C21_WithoutBothPairedMetricsFailsAfterAllFiles ==
    /\ [][(PairMissing /\ k' # k)
             => /\ pc = "keep_csa" /\ k' = k + 1
                /\ df = TableOfFile(csv_files[k])
                /\ stats = StatsOfFile(csv_files[k])]_vars
    /\ []((PairMissing /\ pc = "generate_figure_t1_t2")
             => k = Len(csv_files) + 1 /\ FilesDone = Range(csv_files))
    /\ [][(PairMissing /\ pc = "generate_figure_t1_t2")
             => CrossContrastFailed' /\ UNCHANGED <<k, df, reg, CSA_dict>>]_vars
    /\ [](PairMissing =>
             /\ ~RegressionStarted
             /\ reg = <<>> /\ CSA_dict = <<>>
             /\ csa_t1.bound <=> "csa-SC_T1w.csv" \in FilesDone
             /\ csa_t2.bound <=> "csa-SC_T2w.csv" \in FilesDone
             /\ csa_t1.bound => csa_t1.values = sort_values_site(TableOfFile("csa-SC_T1w.csv"))
             /\ csa_t2.bound => csa_t2.values = sort_values_site(TableOfFile("csa-SC_T2w.csv")))
    /\ [](CrossContrastFailed =>
             /\ PairMissing /\ csv_files # <<>>
             /\ k = Len(csv_files) + 1)

\* mtr and csa_t1 went through, in this order, and the run ended at the call
\* of generate_figure_t1_t2: csa_t2 was never assigned
C21_Witness ==
    /\ CrossContrastFailed
    /\ csv_files = <<"MTR.csv", "csa-SC_T1w.csv">>
    /\ k = 3
    /\ df = TableOfFile("csa-SC_T1w.csv")
    /\ csa_t1.bound /\ ~csa_t2.bound
    /\ reg = <<>>

=============================================================================
